---- MODULE Spec2Model ----
(***************************************************************************)
(* Model of src/Banco.py: clients, checking (Corrente) and savings         *)
(* (Poupanca) accounts, and the Bank (Banco) that registers them and runs  *)
(* deposito, saque and transferencia.                                      *)
(*                                                                         *)
(* Objects are drawn from two fixed pools (Clientes, Contas).  Amounts are *)
(* whole currency units, which Python floats represent exactly.            *)
(***************************************************************************)
EXTENDS Integers, Sequences, FiniteSets, TLC

\* ------------------------------------------------------------------------
\* Bounds of the model
\* ------------------------------------------------------------------------
\* largest number of successful deposito, saque and transferencia calls
MaxOps == 2
\* the calendar date runs over 0 .. MaxDia
MaxDia == 1
\* largest length of Banco.contas and of each Cliente.contas that nova_conta
\* and adicionar_conta build
MaxLista == 2
\* largest length of Banco.clientes that criar_cliente builds
MaxClientes == 1
\* Value of the field limite_saques_diarios of the accounts of the model.
\* The dataclass default is 20 (Banco.py line 59); the accounts here carry a
\* smaller limit so that it is reached within MaxOps withdrawals.
LimiteSaquesDiarios == 1

\* ------------------------------------------------------------------------
\* Object pools and input values
\* ------------------------------------------------------------------------
Clientes == {"c1", "c2"}
Contas == {"a1", "a2"}
Classes == {"Corrente", "Poupanca"}
Numeros == {"001", "002"}
SaldosIniciais == {0, 2000}
Valores == {1000, 6000}
Nenhum == "-"

\* Corrente.limite_cheque_especial, class attribute
LimiteChequeEspecial == 5000

\* class TipoOperacao(Enum): the members
TipoOperacao ==
  {"TipoOperacao.DEPOSITO", "TipoOperacao.SAQUE",
   "TipoOperacao.TRANSFERENCIA_DEBITO", "TipoOperacao.TRANSFERENCIA_CREDITO"}

\* @dataclass Operacao(tipo, valor, dia); dia defaults to datetime.now(),
\* modelled by the clock Agora
Operacao(tipo, valor, dia) == [tipo |-> tipo, valor |-> valor, dia |-> dia]

VARIABLES
  hoje,                    \* datetime.date.today()
  classe,                  \* the class the account is an instance of
  titular,                 \* Conta.titular
  saldo,                   \* Conta.saldo
  numero,                  \* Conta.numero
  saques_diarios,          \* Conta.saques_diarios
  operacoes,               \* Conta.operacoes
  ultima_atualizacao,      \* Conta.ultima_atualizacao
  limite_cheque_especial,  \* Corrente.limite_cheque_especial
  cliente_contas,          \* Cliente.contas
  banco_clientes,          \* Banco.clientes
  banco_contas,            \* Banco.contas
  saldo_inicial,           \* observer: the saldo an account was built with
  creditado,               \* observer: sum of the amounts passed to creditar
  debitado,                \* observer: sum of the amounts debitar accepted
  saques_na_data,          \* observer: successful saque calls on the date hoje
  sucessos,                \* observer: successful calls an account took part in
  last                     \* observer: the last call and how it ended

conta_vars == <<classe, titular, saldo, numero, saques_diarios, operacoes,
                ultima_atualizacao, limite_cheque_especial>>
obs_vars == <<saldo_inicial, creditado, debitado, saques_na_data, sucessos>>
vars == <<hoje, classe, titular, saldo, numero, saques_diarios, operacoes,
          ultima_atualizacao, limite_cheque_especial, cliente_contas,
          banco_clientes, banco_contas, saldo_inicial, creditado, debitado,
          saques_na_data, sucessos, last>>

\* Conta.limite_saques_diarios: set at construction, never assigned again
limite_saques_diarios == [a \in Contas |-> LimiteSaquesDiarios]

Call(op, cli, a, b, v, res) ==
  [op |-> op, cli |-> cli, a |-> a, b |-> b, v |-> v, res |-> res]

\* ------------------------------------------------------------------------
\* Equality and membership as Python computes them
\* ------------------------------------------------------------------------
\* Cliente.__eq__ (dataclass) compares (nome, cpf, enderecos, contas).  The
\* clients of the pool are distinct persons with distinct cpf, so two of them
\* are equal exactly when they are the same object.
EqCliente(c, d) == c = d

\* Conta.__eq__ (dataclass, inherited by Corrente and Poupanca): same class
\* and equal fields; limite_cheque_especial is no dataclass field.
EqConta(a, b) ==
  \/ a = b
  \/ /\ classe[a] = classe[b]
     /\ EqCliente(titular[a], titular[b])
     /\ saldo[a] = saldo[b]
     /\ numero[a] = numero[b]
     /\ saques_diarios[a] = saques_diarios[b]
     /\ limite_saques_diarios[a] = limite_saques_diarios[b]
     /\ operacoes[a] = operacoes[b]
     /\ ultima_atualizacao[a] = ultima_atualizacao[b]

\* conta in self.contas
ContaIn(a, lista) == \E i \in 1..Len(lista) : EqConta(lista[i], a)

\* cliente in self.clientes
ClienteIn(c, lista) == \E i \in 1..Len(lista) : EqCliente(lista[i], c)

\* list.remove(x): drops the first element equal to x
RECURSIVE ListRemove(_, _)
ListRemove(lista, a) ==
  IF lista = << >> THEN << >>
  ELSE IF EqConta(Head(lista), a) THEN Tail(lista)
  ELSE <<Head(lista)>> \o ListRemove(Tail(lista), a)

\* number of successful deposito, saque and transferencia calls so far: each
\* left one record that is not the credit side of a transfer
RECURSIVE Chamadas(_)
Chamadas(ops) ==
  IF ops = << >> THEN 0
  ELSE (IF Head(ops).tipo = "Transferencia - Credito" THEN 0 ELSE 1)
       + Chamadas(Tail(ops))
RECURSIVE SomaChamadas(_)
SomaChamadas(S) ==
  IF S = {} THEN 0
  ELSE LET a == CHOOSE x \in S : TRUE
       IN Chamadas(operacoes[a]) + SomaChamadas(S \ {a})
TotalOps == SomaChamadas(Contas)

\* datetime.now(), as the number of Operacao records built before: the clock
\* moves on between any two records
RECURSIVE SomaLen(_)
SomaLen(S) ==
  IF S = {} THEN 0
  ELSE LET a == CHOOSE x \in S : TRUE IN Len(operacoes[a]) + SomaLen(S \ {a})
Agora == SomaLen(Contas)

\* ------------------------------------------------------------------------
\* Exceptions
\* ------------------------------------------------------------------------
\* NonClientError(member_name): formats the name into the message
NonClientError(member_name) == "NonClientError"

\* NonCountError(conta): the constructor reads conta.numero to build its
\* message; an argument that is not an account has no such attribute
NonCountError(conta) ==
  IF conta \in Contas THEN "NonCountError" ELSE "AttributeError"

OperationError == "OperationError"

\* ------------------------------------------------------------------------
\* Conta, Corrente, Poupanca
\* ------------------------------------------------------------------------
\* Variant of debitar_com_cheque_especial that takes the whole amount from the
\* balance and leaves the overdraft limit alone
debitar_com_cheque_especial_saldo_negativo(a, valor) ==
  IF valor > limite_cheque_especial[a] + saldo[a]
  THEN [ret |-> FALSE, saldo |-> saldo[a],
        limite_cheque_especial |-> limite_cheque_especial[a]]
  ELSE [ret |-> TRUE, saldo |-> saldo[a] - valor,
        limite_cheque_especial |-> limite_cheque_especial[a]]

\* Variant of debitar_com_cheque_especial that never refuses: the test of the
\* amount against limit plus balance is missing
debitar_com_cheque_especial_sem_verificar(a, valor) ==
  [ret |-> TRUE, saldo |-> 0,
   limite_cheque_especial |->
     limite_cheque_especial[a] - (valor - saldo[a])]

\* Variant of debitar_com_cheque_especial that takes the whole amount, not
\* only the part the balance does not cover, off the overdraft limit
debitar_com_cheque_especial_limite_inteiro(a, valor) ==
  IF valor > limite_cheque_especial[a] + saldo[a]
  THEN [ret |-> FALSE, saldo |-> saldo[a],
        limite_cheque_especial |-> limite_cheque_especial[a]]
  ELSE [ret |-> TRUE, saldo |-> 0,
        limite_cheque_especial |-> limite_cheque_especial[a] - valor]

\* Variant of debitar_com_cheque_especial that adds the uncovered part of the
\* amount to the overdraft limit instead of taking it off
debitar_com_cheque_especial_soma_limite(a, valor) ==
  IF valor > limite_cheque_especial[a] + saldo[a]
  THEN [ret |-> FALSE, saldo |-> saldo[a],
        limite_cheque_especial |-> limite_cheque_especial[a]]
  ELSE [ret |-> TRUE, saldo |-> 0,
        limite_cheque_especial |->
          limite_cheque_especial[a] + (valor - saldo[a])]

\* Corrente.debitar_com_cheque_especial: result, new saldo, new limit
debitar_com_cheque_especial(a, valor) ==
  IF valor > limite_cheque_especial[a] + saldo[a]
  THEN [ret |-> FALSE, saldo |-> saldo[a],
        limite_cheque_especial |-> limite_cheque_especial[a]]
  ELSE [ret |-> TRUE, saldo |-> 0,
        limite_cheque_especial |->
          limite_cheque_especial[a] - (valor - saldo[a])]

\* Variant of debitar that accepts a covered amount without subtracting it
debitar_sem_subtrair(a, valor) ==
  IF valor > saldo[a] /\ classe[a] = "Corrente"
  THEN debitar_com_cheque_especial(a, valor)
  ELSE IF valor > saldo[a]
  THEN [ret |-> FALSE, saldo |-> saldo[a],
        limite_cheque_especial |-> limite_cheque_especial[a]]
  ELSE [ret |-> TRUE, saldo |-> saldo[a],
        limite_cheque_especial |-> limite_cheque_especial[a]]

\* Conta.debitar: result, new saldo, new limit
debitar(a, valor) ==
  IF valor > saldo[a] /\ classe[a] = "Corrente"
  THEN debitar_com_cheque_especial(a, valor)
  ELSE IF valor > saldo[a]
  THEN [ret |-> FALSE, saldo |-> saldo[a],
        limite_cheque_especial |-> limite_cheque_especial[a]]
  ELSE [ret |-> TRUE, saldo |-> saldo[a] - valor,
        limite_cheque_especial |-> limite_cheque_especial[a]]

\* Variant of creditar that takes the amount off the balance
creditar_subtrai(saldo_atual, valor) == saldo_atual - valor

\* Conta.creditar: the new saldo of an account whose saldo is saldo_atual
creditar(saldo_atual, valor) == saldo_atual + valor

\* Variant of verificar_reset that moves the date on but keeps the counter
verificar_reset_sem_zerar(a) ==
  IF hoje # ultima_atualizacao[a]
  THEN [saques_diarios |-> saques_diarios[a], ultima_atualizacao |-> hoje]
  ELSE [saques_diarios |-> saques_diarios[a],
        ultima_atualizacao |-> ultima_atualizacao[a]]

\* Variant of verificar_reset that zeroes the counter but does not move the
\* date on
verificar_reset_sem_data(a) ==
  IF hoje # ultima_atualizacao[a]
  THEN [saques_diarios |-> 0, ultima_atualizacao |-> ultima_atualizacao[a]]
  ELSE [saques_diarios |-> saques_diarios[a],
        ultima_atualizacao |-> ultima_atualizacao[a]]

\* Conta.verificar_reset: the counter and the date it leaves
verificar_reset(a) ==
  IF hoje # ultima_atualizacao[a]
  THEN [saques_diarios |-> 0, ultima_atualizacao |-> hoje]
  ELSE [saques_diarios |-> saques_diarios[a],
        ultima_atualizacao |-> ultima_atualizacao[a]]

\* Variant of limite_saque that holds every class of account to the daily
\* limit
limite_saque_toda_classe(a) ==
  verificar_reset(a).saques_diarios < limite_saques_diarios[a]

\* Variant of limite_saque that still allows a withdrawal when the counter
\* equals the limit
limite_saque_menor_ou_igual(a) ==
  IF classe[a] = "Poupanca"
  THEN verificar_reset(a).saques_diarios <= limite_saques_diarios[a]
  ELSE TRUE

\* Conta.limite_saque: the value returned after verificar_reset
limite_saque(a) ==
  IF classe[a] = "Poupanca"
  THEN verificar_reset(a).saques_diarios < limite_saques_diarios[a]
  ELSE TRUE

\* ------------------------------------------------------------------------
\* Initial states
\* ------------------------------------------------------------------------
\* The two accounts have just been built, on day 0, by
\* Corrente(titular, saldo, numero) or Poupanca(titular, saldo, numero); a1
\* is a Corrente of client c1 with number "001", a2 starts with 2000.
InitContas ==
  /\ hoje = 0
  /\ classe \in {f \in [Contas -> Classes] : f["a1"] = "Corrente"}
  /\ titular \in {f \in [Contas -> Clientes] : f["a1"] = "c1"}
  /\ saldo \in {f \in [Contas -> SaldosIniciais] : f["a2"] = 2000}
  /\ numero \in {f \in [Contas -> Numeros] : f["a1"] = "001"}
  /\ saques_diarios = [a \in Contas |-> 0]
  /\ operacoes = [a \in Contas |-> << >>]
  /\ ultima_atualizacao = [a \in Contas |-> hoje]
  /\ limite_cheque_especial =
       [a \in Contas |->
          IF classe[a] = "Corrente" THEN LimiteChequeEspecial ELSE 0]
  /\ saldo_inicial = saldo
  /\ creditado = [a \in Contas |-> 0]
  /\ debitado = [a \in Contas |-> 0]
  /\ saques_na_data = [a \in Contas |-> 0]
  /\ sucessos = [a \in Contas |-> 0]
  /\ last = Call("init", Nenhum, Nenhum, Nenhum, 0, "ok")

\* Banco() and the clients as constructed: empty registries, no account
\* owned; two Corrente accounts with 2000 each
InitCadastro ==
  /\ InitContas
  /\ classe["a2"] = "Corrente"
  /\ saldo["a1"] = 2000
  /\ cliente_contas = [c \in Clientes |-> << >>]
  /\ banco_clientes = << >>
  /\ banco_contas = << >>

\* The bank once client c1, who holds both accounts, has been registered by
\* criar_cliente and has opened, by nova_conta, none, one or both of them
Init ==
  /\ InitContas
  /\ titular["a2"] = "c1"
  /\ banco_clientes = <<"c1">>
  /\ banco_contas \in {<< >>, <<"a1">>, <<"a2">>, <<"a1", "a2">>}
  /\ cliente_contas = [c \in Clientes |->
                         IF c = "c1" THEN banco_contas ELSE << >>]

\* ------------------------------------------------------------------------
\* Operations
\* ------------------------------------------------------------------------
\* the calendar date changes
AvancarDia ==
  /\ hoje < MaxDia
  /\ hoje' = hoje + 1
  /\ saques_na_data' = [a \in Contas |-> 0]
  /\ last' = Call("dia", Nenhum, Nenhum, Nenhum, 0, "ok")
  /\ UNCHANGED <<conta_vars, cliente_contas, banco_clientes, banco_contas,
                 saldo_inicial, creditado, debitado, sucessos>>

\* Cliente.adicionar_conta
adicionar_conta(c, a) ==
  /\ Len(cliente_contas[c]) < MaxLista
  /\ cliente_contas' = [cliente_contas EXCEPT ![c] = Append(@, a)]
  /\ last' = Call("adicionar_conta", c, a, Nenhum, 0, "ok")
  /\ UNCHANGED <<hoje, conta_vars, banco_clientes, banco_contas,
                 obs_vars>>

\* Variant of remover_conta that also takes the account out of Banco.contas
remover_conta_e_do_banco(c, numero_conta) ==
  LET achadas == {i \in 1..Len(cliente_contas[c]) :
                    numero[cliente_contas[c][i]] = numero_conta}
  IN
  /\ IF achadas # {}
     THEN LET i == CHOOSE k \in achadas : \A j \in achadas : k <= j
          IN /\ cliente_contas' =
                  [cliente_contas EXCEPT
                     ![c] = ListRemove(@, cliente_contas[c][i])]
             /\ banco_contas' = ListRemove(banco_contas, cliente_contas[c][i])
             /\ last' = Call("remover_conta", c, cliente_contas[c][i],
                             numero_conta, 0, "True")
     ELSE /\ UNCHANGED <<cliente_contas, banco_contas>>
          /\ last' = Call("remover_conta", c, Nenhum, numero_conta, 0,
                          "False")
  /\ UNCHANGED <<hoje, conta_vars, banco_clientes, obs_vars>>

\* Cliente.remover_conta
remover_conta(c, numero_conta) ==
  LET achadas == {i \in 1..Len(cliente_contas[c]) :
                    numero[cliente_contas[c][i]] = numero_conta}
  IN
  /\ IF achadas # {}
     THEN LET i == CHOOSE k \in achadas : \A j \in achadas : k <= j
          IN /\ cliente_contas' =
                  [cliente_contas EXCEPT
                     ![c] = ListRemove(@, cliente_contas[c][i])]
             /\ last' = Call("remover_conta", c, cliente_contas[c][i],
                             numero_conta, 0, "True")
     ELSE /\ UNCHANGED cliente_contas
          /\ last' = Call("remover_conta", c, Nenhum, numero_conta, 0,
                          "False")
  /\ UNCHANGED <<hoje, conta_vars, banco_clientes, banco_contas,
                 obs_vars>>

\* Banco.criar_cliente
criar_cliente(c) ==
  /\ Len(banco_clientes) < MaxClientes
  /\ banco_clientes' = Append(banco_clientes, c)
  /\ last' = Call("criar_cliente", c, Nenhum, Nenhum, 0, "ok")
  /\ UNCHANGED <<hoje, conta_vars, cliente_contas, banco_contas,
                 obs_vars>>

\* Variant of nova_conta that registers the account before it looks the
\* client up
nova_conta_registra_antes(c, a) ==
  /\ Len(banco_contas) < MaxLista
  /\ banco_contas' = Append(banco_contas, a)
  /\ IF ~ClienteIn(c, banco_clientes)
     THEN /\ last' = Call("nova_conta", c, a, Nenhum, 0, NonClientError(c))
          /\ UNCHANGED cliente_contas
     ELSE /\ Len(cliente_contas[c]) < MaxLista
          /\ cliente_contas' = [cliente_contas EXCEPT ![c] = Append(@, a)]
          /\ last' = Call("nova_conta", c, a, Nenhum, 0, "ok")
  /\ UNCHANGED <<hoje, conta_vars, banco_clientes, obs_vars>>

\* Banco.nova_conta
nova_conta(c, a) ==
  /\ IF ~ClienteIn(c, banco_clientes)
     THEN /\ last' = Call("nova_conta", c, a, Nenhum, 0, NonClientError(c))
          /\ UNCHANGED <<banco_contas, cliente_contas>>
     ELSE /\ Len(banco_contas) < MaxLista
          /\ Len(cliente_contas[c]) < MaxLista
          /\ banco_contas' = Append(banco_contas, a)
          /\ cliente_contas' = [cliente_contas EXCEPT ![c] = Append(@, a)]
          /\ last' = Call("nova_conta", c, a, Nenhum, 0, "ok")
  /\ UNCHANGED <<hoje, conta_vars, banco_clientes, obs_vars>>

\* Variant of deposito that starts the history anew with the deposit record
deposito_substitui_historico(a, valor) ==
  /\ IF ~ContaIn(a, banco_contas)
     THEN /\ last' = Call("deposito", Nenhum, a, Nenhum, valor,
                          NonCountError(numero[a]))
          /\ UNCHANGED <<operacoes, saldo, creditado, sucessos>>
     ELSE /\ TotalOps < MaxOps
          /\ operacoes' =
               [operacoes EXCEPT
                  ![a] = <<Operacao("Deposito", valor, Agora)>>]
          /\ saldo' = [saldo EXCEPT ![a] = creditar(@, valor)]
          /\ creditado' = [creditado EXCEPT ![a] = @ + valor]
          /\ sucessos' = [sucessos EXCEPT ![a] = @ + 1]
          /\ last' = Call("deposito", Nenhum, a, Nenhum, valor, "ok")
  /\ UNCHANGED <<hoje, classe, titular, numero, saques_diarios,
                 ultima_atualizacao, limite_cheque_especial, cliente_contas,
                 banco_clientes, banco_contas, saldo_inicial, debitado,
                 saques_na_data>>

\* Banco.deposito
deposito(a, valor) ==
  /\ IF ~ContaIn(a, banco_contas)
     THEN /\ last' = Call("deposito", Nenhum, a, Nenhum, valor,
                          NonCountError(numero[a]))
          /\ UNCHANGED <<operacoes, saldo, creditado, sucessos>>
     ELSE /\ TotalOps < MaxOps
          /\ operacoes' =
               [operacoes EXCEPT ![a] = Append(@, Operacao("Deposito", valor, Agora))]
          /\ saldo' = [saldo EXCEPT ![a] = creditar(@, valor)]
          /\ creditado' = [creditado EXCEPT ![a] = @ + valor]
          /\ sucessos' = [sucessos EXCEPT ![a] = @ + 1]
          /\ last' = Call("deposito", Nenhum, a, Nenhum, valor, "ok")
  /\ UNCHANGED <<hoje, classe, titular, numero, saques_diarios,
                 ultima_atualizacao, limite_cheque_especial, cliente_contas,
                 banco_clientes, banco_contas, saldo_inicial, debitado,
                 saques_na_data>>

\* Variant of saque that counts the attempt before it debits, so a refused
\* withdrawal is counted too
saque_conta_tentativas(a, valor) ==
  /\ IF ~ContaIn(a, banco_contas)
     THEN /\ last' = Call("saque", Nenhum, a, Nenhum, valor,
                          NonCountError(numero[a]))
          /\ UNCHANGED <<saldo, saques_diarios, operacoes,
                         ultima_atualizacao, limite_cheque_especial,
                         debitado, saques_na_data, sucessos>>
     ELSE LET r == verificar_reset(a)
              d == debitar(a, valor)
          IN
          /\ ultima_atualizacao' =
               [ultima_atualizacao EXCEPT ![a] = r.ultima_atualizacao]
          /\ IF ~limite_saque(a)
             THEN /\ saques_diarios' =
                       [saques_diarios EXCEPT ![a] = r.saques_diarios]
                  /\ last' = Call("saque", Nenhum, a, Nenhum, valor,
                                  OperationError)
                  /\ UNCHANGED <<saldo, operacoes, limite_cheque_especial,
                                 debitado, saques_na_data, sucessos>>
             ELSE IF d.ret
             THEN /\ TotalOps < MaxOps
                  /\ saldo' = [saldo EXCEPT ![a] = d.saldo]
                  /\ limite_cheque_especial' =
                       [limite_cheque_especial EXCEPT
                          ![a] = d.limite_cheque_especial]
                  /\ operacoes' =
                       [operacoes EXCEPT
                          ![a] = Append(@, Operacao("TipoOperacao.SAQUE",
                                                    valor, Agora))]
                  /\ saques_diarios' =
                       [saques_diarios EXCEPT ![a] = r.saques_diarios + 1]
                  /\ debitado' = [debitado EXCEPT ![a] = @ + valor]
                  /\ saques_na_data' = [saques_na_data EXCEPT ![a] = @ + 1]
                  /\ sucessos' = [sucessos EXCEPT ![a] = @ + 1]
                  /\ last' = Call("saque", Nenhum, a, Nenhum, valor, "ok")
             ELSE /\ saques_diarios' =
                       [saques_diarios EXCEPT ![a] = r.saques_diarios + 1]
                  /\ last' = Call("saque", Nenhum, a, Nenhum, valor,
                                  OperationError)
                  /\ UNCHANGED <<saldo, operacoes, limite_cheque_especial,
                                 debitado, saques_na_data, sucessos>>
  /\ UNCHANGED <<hoje, classe, titular, numero, cliente_contas,
                 banco_clientes, banco_contas, saldo_inicial, creditado>>

\* Banco.saque
saque(a, valor) ==
  /\ IF ~ContaIn(a, banco_contas)
     THEN /\ last' = Call("saque", Nenhum, a, Nenhum, valor,
                          NonCountError(numero[a]))
          /\ UNCHANGED <<saldo, saques_diarios, operacoes,
                         ultima_atualizacao, limite_cheque_especial,
                         debitado, saques_na_data, sucessos>>
     ELSE LET r == verificar_reset(a)
              d == debitar(a, valor)
          IN
          /\ ultima_atualizacao' =
               [ultima_atualizacao EXCEPT ![a] = r.ultima_atualizacao]
          /\ IF ~limite_saque(a)
             THEN /\ saques_diarios' =
                       [saques_diarios EXCEPT ![a] = r.saques_diarios]
                  /\ last' = Call("saque", Nenhum, a, Nenhum, valor,
                                  OperationError)
                  /\ UNCHANGED <<saldo, operacoes, limite_cheque_especial,
                                 debitado, saques_na_data, sucessos>>
             ELSE IF d.ret
             THEN /\ TotalOps < MaxOps
                  /\ saldo' = [saldo EXCEPT ![a] = d.saldo]
                  /\ limite_cheque_especial' =
                       [limite_cheque_especial EXCEPT
                          ![a] = d.limite_cheque_especial]
                  /\ operacoes' =
                       [operacoes EXCEPT
                          ![a] = Append(@, Operacao("TipoOperacao.SAQUE",
                                                    valor, Agora))]
                  /\ saques_diarios' =
                       [saques_diarios EXCEPT ![a] = r.saques_diarios + 1]
                  /\ debitado' = [debitado EXCEPT ![a] = @ + valor]
                  /\ saques_na_data' = [saques_na_data EXCEPT ![a] = @ + 1]
                  /\ sucessos' = [sucessos EXCEPT ![a] = @ + 1]
                  /\ last' = Call("saque", Nenhum, a, Nenhum, valor, "ok")
             ELSE /\ saques_diarios' =
                       [saques_diarios EXCEPT ![a] = r.saques_diarios]
                  /\ last' = Call("saque", Nenhum, a, Nenhum, valor,
                                  OperationError)
                  /\ UNCHANGED <<saldo, operacoes, limite_cheque_especial,
                                 debitado, saques_na_data, sucessos>>
  /\ UNCHANGED <<hoje, classe, titular, numero, cliente_contas,
                 banco_clientes, banco_contas, saldo_inicial, creditado>>

\* Variant of transferencia that logs the credit record before the debit
\* record
transferencia_credito_antes(conta1, conta2, valor) ==
  /\ IF ~ContaIn(conta1, banco_contas)
     THEN /\ last' = Call("transferencia", Nenhum, conta1, conta2, valor,
                          NonCountError(numero[conta1]))
          /\ UNCHANGED <<saldo, operacoes, limite_cheque_especial,
                         creditado, debitado, sucessos>>
     ELSE IF ~ContaIn(conta2, banco_contas)
     THEN /\ last' = Call("transferencia", Nenhum, conta1, conta2, valor,
                          NonCountError(numero[conta2]))
          /\ UNCHANGED <<saldo, operacoes, limite_cheque_especial,
                         creditado, debitado, sucessos>>
     ELSE LET d == debitar(conta1, valor)
              saldo1 == [saldo EXCEPT ![conta1] = d.saldo]
              ops1 == [operacoes EXCEPT
                         ![conta2] =
                           Append(@, Operacao("Transferencia - Credito",
                                              valor, Agora))]
          IN
          IF d.ret
          THEN /\ TotalOps < MaxOps
               /\ saldo' = [saldo1 EXCEPT ![conta2] = creditar(@, valor)]
               /\ limite_cheque_especial' =
                    [limite_cheque_especial EXCEPT
                       ![conta1] = d.limite_cheque_especial]
               /\ operacoes' =
                    [ops1 EXCEPT
                       ![conta1] =
                         Append(@, Operacao("Transferencia - Debito",
                                            valor, Agora + 1))]
               /\ debitado' = [debitado EXCEPT ![conta1] = @ + valor]
               /\ creditado' = [creditado EXCEPT ![conta2] = @ + valor]
               /\ sucessos' = [[sucessos EXCEPT ![conta1] = @ + 1]
                                EXCEPT ![conta2] = @ + 1]
               /\ last' = Call("transferencia", Nenhum, conta1, conta2,
                               valor, "ok")
          ELSE /\ last' = Call("transferencia", Nenhum, conta1, conta2,
                               valor, OperationError)
               /\ UNCHANGED <<saldo, operacoes, limite_cheque_especial,
                              creditado, debitado, sucessos>>
  /\ UNCHANGED <<hoje, classe, titular, numero, saques_diarios,
                 ultima_atualizacao, cliente_contas, banco_clientes,
                 banco_contas, saldo_inicial, saques_na_data>>

\* Variant of transferencia that looks the destination up only after it has
\* debited the source
transferencia_debita_antes(conta1, conta2, valor) ==
  /\ IF ~ContaIn(conta1, banco_contas)
     THEN /\ last' = Call("transferencia", Nenhum, conta1, conta2, valor,
                          NonCountError(numero[conta1]))
          /\ UNCHANGED <<saldo, operacoes, limite_cheque_especial,
                         creditado, debitado, sucessos>>
     ELSE LET d == debitar(conta1, valor)
              saldo1 == [saldo EXCEPT ![conta1] = d.saldo]
              ops1 == [operacoes EXCEPT
                         ![conta1] =
                           Append(@, Operacao("Transferencia - Debito",
                                              valor, Agora))]
          IN
          IF ~d.ret
          THEN /\ last' = Call("transferencia", Nenhum, conta1, conta2,
                               valor, OperationError)
               /\ UNCHANGED <<saldo, operacoes, limite_cheque_especial,
                              creditado, debitado, sucessos>>
          ELSE IF ~ContaIn(conta2, banco_contas)
          THEN /\ saldo' = saldo1
               /\ limite_cheque_especial' =
                    [limite_cheque_especial EXCEPT
                       ![conta1] = d.limite_cheque_especial]
               /\ debitado' = [debitado EXCEPT ![conta1] = @ + valor]
               /\ last' = Call("transferencia", Nenhum, conta1, conta2,
                               valor, NonCountError(numero[conta2]))
               /\ UNCHANGED <<operacoes, creditado, sucessos>>
          ELSE /\ TotalOps < MaxOps
               /\ saldo' = [saldo1 EXCEPT ![conta2] = creditar(@, valor)]
               /\ limite_cheque_especial' =
                    [limite_cheque_especial EXCEPT
                       ![conta1] = d.limite_cheque_especial]
               /\ operacoes' =
                    [ops1 EXCEPT
                       ![conta2] =
                         Append(@, Operacao("Transferencia - Credito",
                                            valor, Agora + 1))]
               /\ debitado' = [debitado EXCEPT ![conta1] = @ + valor]
               /\ creditado' = [creditado EXCEPT ![conta2] = @ + valor]
               /\ sucessos' = [[sucessos EXCEPT ![conta1] = @ + 1]
                                EXCEPT ![conta2] = @ + 1]
               /\ last' = Call("transferencia", Nenhum, conta1, conta2,
                               valor, "ok")
  /\ UNCHANGED <<hoje, classe, titular, numero, saques_diarios,
                 ultima_atualizacao, cliente_contas, banco_clientes,
                 banco_contas, saldo_inicial, saques_na_data>>

\* Variant of transferencia that treats the debit as a withdrawal: it asks
\* limite_saque first and counts the transfer in the daily counter
transferencia_conta_saque(conta1, conta2, valor) ==
  /\ IF ~ContaIn(conta1, banco_contas)
     THEN /\ last' = Call("transferencia", Nenhum, conta1, conta2, valor,
                          NonCountError(numero[conta1]))
          /\ UNCHANGED <<saldo, operacoes, limite_cheque_especial,
                         saques_diarios, ultima_atualizacao,
                         creditado, debitado, sucessos>>
     ELSE IF ~ContaIn(conta2, banco_contas)
     THEN /\ last' = Call("transferencia", Nenhum, conta1, conta2, valor,
                          NonCountError(numero[conta2]))
          /\ UNCHANGED <<saldo, operacoes, limite_cheque_especial,
                         saques_diarios, ultima_atualizacao,
                         creditado, debitado, sucessos>>
     ELSE LET r == verificar_reset(conta1)
              d == debitar(conta1, valor)
              saldo1 == [saldo EXCEPT ![conta1] = d.saldo]
              ops1 == [operacoes EXCEPT
                         ![conta1] =
                           Append(@, Operacao("Transferencia - Debito",
                                              valor, Agora))]
          IN
          /\ ultima_atualizacao' =
               [ultima_atualizacao EXCEPT ![conta1] = r.ultima_atualizacao]
          /\ IF limite_saque(conta1) /\ d.ret
             THEN /\ TotalOps < MaxOps
                  /\ saldo' = [saldo1 EXCEPT ![conta2] = creditar(@, valor)]
                  /\ limite_cheque_especial' =
                       [limite_cheque_especial EXCEPT
                          ![conta1] = d.limite_cheque_especial]
                  /\ operacoes' =
                       [ops1 EXCEPT
                          ![conta2] =
                            Append(@, Operacao("Transferencia - Credito",
                                               valor, Agora + 1))]
                  /\ saques_diarios' =
                       [saques_diarios EXCEPT
                          ![conta1] = r.saques_diarios + 1]
                  /\ debitado' = [debitado EXCEPT ![conta1] = @ + valor]
                  /\ creditado' = [creditado EXCEPT ![conta2] = @ + valor]
                  /\ sucessos' = [[sucessos EXCEPT ![conta1] = @ + 1]
                                    EXCEPT ![conta2] = @ + 1]
                  /\ last' = Call("transferencia", Nenhum, conta1, conta2,
                                  valor, "ok")
             ELSE /\ saques_diarios' =
                       [saques_diarios EXCEPT ![conta1] = r.saques_diarios]
                  /\ last' = Call("transferencia", Nenhum, conta1, conta2,
                                  valor, OperationError)
                  /\ UNCHANGED <<saldo, operacoes, limite_cheque_especial,
                                 creditado, debitado, sucessos>>
  /\ UNCHANGED <<hoje, classe, titular, numero, cliente_contas,
                 banco_clientes, banco_contas, saldo_inicial,
                 saques_na_data>>

\* Banco.transferencia
transferencia(conta1, conta2, valor) ==
  /\ IF ~ContaIn(conta1, banco_contas)
     THEN /\ last' = Call("transferencia", Nenhum, conta1, conta2, valor,
                          NonCountError(numero[conta1]))
          /\ UNCHANGED <<saldo, operacoes, limite_cheque_especial,
                         creditado, debitado, sucessos>>
     ELSE IF ~ContaIn(conta2, banco_contas)
     THEN /\ last' = Call("transferencia", Nenhum, conta1, conta2, valor,
                          NonCountError(numero[conta2]))
          /\ UNCHANGED <<saldo, operacoes, limite_cheque_especial,
                         creditado, debitado, sucessos>>
     ELSE LET d == debitar(conta1, valor)
              saldo1 == [saldo EXCEPT ![conta1] = d.saldo]
              ops1 == [operacoes EXCEPT
                         ![conta1] =
                           Append(@, Operacao("Transferencia - Debito",
                                              valor, Agora))]
          IN
          IF d.ret
          THEN /\ TotalOps < MaxOps
               /\ saldo' = [saldo1 EXCEPT ![conta2] = creditar(@, valor)]
               /\ limite_cheque_especial' =
                    [limite_cheque_especial EXCEPT
                       ![conta1] = d.limite_cheque_especial]
               /\ operacoes' =
                    [ops1 EXCEPT
                       ![conta2] =
                         Append(@, Operacao("Transferencia - Credito",
                                            valor, Agora + 1))]
               /\ debitado' = [debitado EXCEPT ![conta1] = @ + valor]
               /\ creditado' = [creditado EXCEPT ![conta2] = @ + valor]
               /\ sucessos' = [[sucessos EXCEPT ![conta1] = @ + 1]
                                EXCEPT ![conta2] = @ + 1]
               /\ last' = Call("transferencia", Nenhum, conta1, conta2,
                               valor, "ok")
          ELSE /\ last' = Call("transferencia", Nenhum, conta1, conta2,
                               valor, OperationError)
               /\ UNCHANGED <<saldo, operacoes, limite_cheque_especial,
                              creditado, debitado, sucessos>>
  /\ UNCHANGED <<hoje, classe, titular, numero, saques_diarios,
                 ultima_atualizacao, cliente_contas, banco_clientes,
                 banco_contas, saldo_inicial, saques_na_data>>

\* the bank's operations on accounts
Next ==
  \/ AvancarDia
  \/ \E a \in Contas, v \in Valores : deposito(a, v)
  \/ \E a \in Contas, v \in Valores : saque(a, v)
  \/ \E a \in Contas, b \in Contas, v \in Valores : transferencia(a, b, v)

Spec == Init /\ [][Next]_vars

\* registration of clients and accounts, and the clients' own lists
NextCadastro ==
  \/ \E c \in Clientes : criar_cliente(c)
  \/ \E c \in Clientes, a \in Contas : nova_conta(c, a)
  \/ \E c \in Clientes, a \in Contas : adicionar_conta(c, a)
  \/ \E c \in Clientes, n \in Numeros : remover_conta(c, n)

SpecCadastro == InitCadastro /\ [][NextCadastro]_vars

\* The bank once client c1 has opened both accounts, a Corrente and a
\* Poupanca with 2000 each and the same number
InitRemocao ==
  /\ Init
  /\ banco_contas = <<"a1", "a2">>
  /\ saldo["a1"] = 2000
  /\ classe["a2"] = "Poupanca"
  /\ numero["a2"] = numero["a1"]

\* the bank's operations on accounts, and the clients dropping accounts from
\* their own lists
NextRemocao ==
  \/ Next
  \/ \E c \in Clientes, n \in Numeros : remover_conta(c, n)

SpecRemocao == InitRemocao /\ [][NextRemocao]_vars

\* ------------------------------------------------------------------------
\* Properties
\* ------------------------------------------------------------------------
\* the call is a deposito, saque or transferencia that names an account the
\* registry Banco.contas, as it is before the call, does not hold
NaoRegistrada(call) ==
  \/ /\ call.op \in {"deposito", "saque"}
     /\ ~ContaIn(call.a, banco_contas)
  \/ /\ call.op = "transferencia"
     /\ (~ContaIn(call.a, banco_contas) \/ ~ContaIn(call.b, banco_contas))

\* the call is a saque on an account of the given class that the registry,
\* as it is before the call, holds
SaqueRegistrado(call, cls) ==
  /\ call.op = "saque"
  /\ ContaIn(call.a, banco_contas)
  /\ classe[call.a] = cls

\* C1 as stated: the balance of every account, Corrente or Poupanca, is its
\* initial balance plus all the amounts credited minus the amounts of all
\* the debits that returned true.
C1_SaldoTodasAsContas ==
  \A a \in Contas : saldo[a] = saldo_inicial[a] + creditado[a] - debitado[a]

\* C1 as amended: the balance of every Poupanca, and of every Corrente none
\* of whose debits drew on the overdraft (its limit is still the initial
\* one), is its initial balance plus all the amounts credited minus the
\* amounts of all the debits that returned true.
C1_SaldoSemChequeEspecial ==
  \A a \in Contas :
    (classe[a] = "Poupanca"
       \/ limite_cheque_especial[a] = LimiteChequeEspecial)
    => saldo[a] = saldo_inicial[a] + creditado[a] - debitado[a]

\* an account that was credited has then been debited by a saque, without
\* overdraft
C1_Witness ==
  /\ last.op = "saque" /\ last.res = "ok"
  /\ creditado[last.a] > 0
  /\ debitado[last.a] > 0
  /\ classe[last.a] = "Poupanca"
       \/ limite_cheque_especial[last.a] = LimiteChequeEspecial

\* C2 as stated: a deposito, saque or transferencia that names an account
\* missing from the registry ends in NonCountError, and in nothing else.
C2_NaoRegistradaNonCountError ==
  [][NaoRegistrada(last') => last'.res = "NonCountError"]_vars

\* C3: a deposito, saque or transferencia that names an account missing from
\* the registry leaves the balance, overdraft limit, daily withdrawal counter
\* and history of every account as they were; a transfer from a registered
\* account to a missing one does not debit the source.
C3_NaoRegistradaNadaMuda ==
  [][NaoRegistrada(last')
       => UNCHANGED <<saldo, limite_cheque_especial, saques_diarios,
                      operacoes>>]_vars

\* a transfer from a registered account with funds to a missing one has failed
C3_Witness ==
  /\ last.op = "transferencia"
  /\ last.res \notin {"ok", OperationError}
  /\ ContaIn(last.a, banco_contas)
  /\ ~ContaIn(last.b, banco_contas)
  /\ debitar(last.a, last.v).ret

\* C4: a saque of v from a registered Corrente with balance b and overdraft
\* limit o, b < v <= b + o, succeeds and leaves balance 0 and limit o-(v-b).
C4_SaqueChequeEspecial ==
  [][(/\ SaqueRegistrado(last', "Corrente")
      /\ saldo[last'.a] < last'.v
      /\ last'.v <= saldo[last'.a] + limite_cheque_especial[last'.a])
     => /\ last'.res = "ok"
        /\ saldo'[last'.a] = 0
        /\ limite_cheque_especial'[last'.a] =
             limite_cheque_especial[last'.a] - (last'.v - saldo[last'.a])]_vars

\* the first operation on a Corrente built with balance 0 was a saque, which
\* the overdraft covered
C4_Witness ==
  /\ last.op = "saque" /\ last.res = "ok"
  /\ classe[last.a] = "Corrente"
  /\ saldo_inicial[last.a] = 0
  /\ Len(operacoes[last.a]) = 1
  /\ saldo[last.a] = 0
  /\ limite_cheque_especial[last.a] = LimiteChequeEspecial - last.v

\* C5: a saque of v from a registered Corrente with balance b and overdraft
\* limit o, v > b + o, fails with OperationError and leaves both unchanged.
C5_SaqueAlemDoLimite ==
  [][(/\ SaqueRegistrado(last', "Corrente")
      /\ last'.v > saldo[last'.a] + limite_cheque_especial[last'.a])
     => /\ last'.res = OperationError
        /\ saldo'[last'.a] = saldo[last'.a]
        /\ limite_cheque_especial'[last'.a] =
             limite_cheque_especial[last'.a]]_vars

\* a saque beyond balance plus limit has been refused
C5_Witness ==
  /\ last.op = "saque" /\ last.res = OperationError
  /\ ContaIn(last.a, banco_contas)
  /\ classe[last.a] = "Corrente"
  /\ last.v > saldo[last.a] + limite_cheque_especial[last.a]

\* the records of a history that are withdrawals
Saques(ops) == SelectSeq(ops, LAMBDA r : r.tipo = "TipoOperacao.SAQUE")

\* C6: a saque on a registered Poupanca whose daily counter has reached the
\* limit fails with OperationError while the date is that of the last update
\* and changes nothing; once the date differs, the attempt sets the counter to
\* 0 and the date to today, and succeeds if the balance covers the amount
\* (the counter is then 1), else fails with the counter left at 0.
C6_LimiteDiarioPoupanca ==
  [][(/\ SaqueRegistrado(last', "Poupanca")
      /\ saques_diarios[last'.a] >= limite_saques_diarios[last'.a])
     => IF hoje = ultima_atualizacao[last'.a]
        THEN /\ last'.res = OperationError
             /\ UNCHANGED <<saldo, saques_diarios, operacoes,
                            ultima_atualizacao>>
        ELSE /\ ultima_atualizacao'[last'.a] = hoje
             /\ IF last'.v <= saldo[last'.a]
                THEN /\ last'.res = "ok"
                     /\ saldo'[last'.a] = saldo[last'.a] - last'.v
                     /\ saques_diarios'[last'.a] = 1
                ELSE /\ last'.res = OperationError
                     /\ saldo'[last'.a] = saldo[last'.a]
                     /\ saques_diarios'[last'.a] = 0]_vars

\* a Poupanca that made as many withdrawals as the limit allows on day 0 has
\* withdrawn once more on a later day, its counter back at 1
C6_Witness ==
  /\ last.op = "saque" /\ last.res = "ok"
  /\ classe[last.a] = "Poupanca"
  /\ hoje = 1 /\ ultima_atualizacao[last.a] = hoje
  /\ saques_diarios[last.a] = 1
  /\ Len(Saques(operacoes[last.a])) = LimiteSaquesDiarios + 1

\* the texts and members that mark a record as a deposit, a transfer debit
\* and a transfer credit
TipoDeposito == {"TipoOperacao.DEPOSITO", "Deposito"}
TipoTransferenciaDebito ==
  {"TipoOperacao.TRANSFERENCIA_DEBITO", "Transferencia - Debito"}
TipoTransferenciaCredito ==
  {"TipoOperacao.TRANSFERENCIA_CREDITO", "Transferencia - Credito"}

\* the history novo is the history antigo with one more record, of one of
\* the given types and of the given amount
GanhaUm(antigo, novo, tipos, valor) ==
  /\ Len(novo) = Len(antigo) + 1
  /\ SubSeq(novo, 1, Len(antigo)) = antigo
  /\ novo[Len(novo)].tipo \in tipos
  /\ novo[Len(novo)].valor = valor

\* the call is a transferencia between accounts the registry holds, of an
\* amount the balance of the source covers
TransferenciaCoberta(call) ==
  /\ call.op = "transferencia"
  /\ ContaIn(call.a, banco_contas)
  /\ ContaIn(call.b, banco_contas)
  /\ call.v <= saldo[call.a]

\* what C7 says of the step that makes the transfer
C7_Efeito ==
  /\ last'.res = "ok"
  /\ saldo'[last'.a] = saldo[last'.a] - last'.v
  /\ saldo'[last'.b] = saldo[last'.b] + last'.v
  /\ GanhaUm(operacoes[last'.a], operacoes'[last'.a],
             TipoTransferenciaDebito, last'.v)
  /\ GanhaUm(operacoes[last'.b], operacoes'[last'.b],
             TipoTransferenciaCredito, last'.v)
  /\ operacoes'[last'.a][Len(operacoes'[last'.a])].dia
       < operacoes'[last'.b][Len(operacoes'[last'.b])].dia

\* C7 as stated: any covered transfer of v from A to B, both registered,
\* lowers A's balance by v, raises B's by v, adds one TransferDebit record to
\* A's history and one TransferCredit record to B's, the debit record first.
C7_TransferenciaQualquer ==
  [][TransferenciaCoberta(last') => C7_Efeito]_vars

\* C7 as amended: the same, for A and B two different accounts.
C7_TransferenciaContasDistintas ==
  [][(TransferenciaCoberta(last') /\ last'.a # last'.b) => C7_Efeito]_vars

\* a transfer between two different accounts has succeeded, the source never
\* having drawn on an overdraft
C7_Witness ==
  /\ last.op = "transferencia" /\ last.res = "ok"
  /\ last.a # last.b
  /\ classe[last.a] = "Poupanca"
       \/ limite_cheque_especial[last.a] = LimiteChequeEspecial

\* C8: a deposito of v >= 0 into a registered account raises its balance by
\* v, adds one Deposit record to its history and changes no other account.
C8_Deposito ==
  [][(/\ last'.op = "deposito"
      /\ ContaIn(last'.a, banco_contas)
      /\ last'.v >= 0)
     => /\ last'.res = "ok"
        /\ saldo'[last'.a] = saldo[last'.a] + last'.v
        /\ GanhaUm(operacoes[last'.a], operacoes'[last'.a], TipoDeposito,
                   last'.v)
        /\ \A b \in Contas \ {last'.a} :
             /\ saldo'[b] = saldo[b]
             /\ operacoes'[b] = operacoes[b]
             /\ saques_diarios'[b] = saques_diarios[b]
             /\ ultima_atualizacao'[b] = ultima_atualizacao[b]
             /\ limite_cheque_especial'[b] = limite_cheque_especial[b]]_vars

\* a deposit into a registered account has succeeded
C8_Witness ==
  /\ last.op = "deposito" /\ last.res = "ok"
  /\ last.v >= 0
  /\ operacoes[last.a] # << >>
  /\ operacoes[last.a][Len(operacoes[last.a])].tipo \in TipoDeposito

\* C9: nova_conta(client, account) fails with NonClientError and leaves
\* Banco.contas and the client's list unchanged when the client is not in
\* Banco.clientes; otherwise it appends the account to both.
C9_NovaConta ==
  [][last'.op = "nova_conta"
     => IF ~ClienteIn(last'.cli, banco_clientes)
        THEN /\ last'.res = "NonClientError"
             /\ UNCHANGED <<banco_contas, cliente_contas>>
        ELSE /\ last'.res = "ok"
             /\ banco_contas' = Append(banco_contas, last'.a)
             /\ cliente_contas' =
                  [cliente_contas EXCEPT
                     ![last'.cli] = Append(@, last'.a)]]_vars

\* nova_conta has been refused for a client the bank does not know, after it
\* registered an account for one it knows
C9_Witness ==
  /\ last.op = "nova_conta" /\ last.res = "NonClientError"
  /\ ~ClienteIn(last.cli, banco_clientes)
  /\ banco_contas # << >>

\* C10 as stated: an account is in a client's list exactly when that client
\* is the account's titular.
C10_ListaSseTitular ==
  \A c \in Clientes, a \in Contas :
    (\E i \in 1..Len(cliente_contas[c]) : cliente_contas[c][i] = a)
      <=> titular[a] = c

\* the value verificar_reset leaves in the daily counter of an account: 0 when
\* the date differs from that of the last update, else the counter as it is
ContadorAposReset(a) ==
  IF hoje # ultima_atualizacao[a] THEN 0 ELSE saques_diarios[a]

\* the call is a saque on an account the registry, as it is before the call,
\* holds
SaqueEmRegistrada(call) ==
  call.op = "saque" /\ ContaIn(call.a, banco_contas)

\* what C11 says of the step that makes the saque, the successful one leaving
\* the counter at base + 1
C11_Efeito(base) ==
  LET a == last'.a IN
  /\ last'.res = "ok"
       <=> /\ classe[a] = "Poupanca"
                => ContadorAposReset(a) < limite_saques_diarios[a]
           /\ debitar(a, last'.v).ret
  /\ IF last'.res = "ok"
     THEN /\ GanhaUm(operacoes[a], operacoes'[a], {"TipoOperacao.SAQUE"},
                     last'.v)
          /\ saques_diarios'[a] = base + 1
     ELSE /\ last'.res = OperationError
          /\ operacoes' = operacoes
          /\ saques_diarios'[a] <= saques_diarios[a]
          /\ saques_diarios'[a] <= base
          /\ saldo' = saldo

\* C11 as stated: a saque on a registered account appends a Withdrawal
\* record and raises the daily counter by exactly 1, from the value it had
\* when the call began, exactly when the debit succeeds; a saque that fails
\* raises OperationError, appends nothing, does not raise the counter and
\* leaves the balance alone.
C11_SaqueContadorMaisUm ==
  [][SaqueEmRegistrada(last') => C11_Efeito(saques_diarios[last'.a])]_vars

\* C11 as amended: the same, the successful saque raising the counter by
\* exactly 1 from the value the reset check leaves it with, which is 0 when
\* the date differs from that of the last update.
C11_SaqueContadorAposReset ==
  [][SaqueEmRegistrada(last') => C11_Efeito(ContadorAposReset(last'.a))]_vars

\* a withdrawal has succeeded on a later date than an earlier one on the same
\* account: two Withdrawal records, the counter at 1 as it was before the call
C11_Witness ==
  /\ last.op = "saque" /\ last.res = "ok"
  /\ ContaIn(last.a, banco_contas)
  /\ hoje > 0 /\ ultima_atualizacao[last.a] = hoje
  /\ Len(Saques(operacoes[last.a])) = 2
  /\ saques_na_data[last.a] = 1
  /\ saques_diarios[last.a] = 1

\* C12 as stated: every record that deposito, saque or transferencia has
\* appended to a history has a tipo that is one of the four members of
\* TipoOperacao.
C12_TipoMembroDoEnum ==
  \A a \in Contas : \A i \in 1..Len(operacoes[a]) :
    operacoes[a][i].tipo \in TipoOperacao

\* the registry holds the account and no client's list does: its titular
\* has dropped it
Removida(a) ==
  /\ ContaIn(a, banco_contas)
  /\ \A c \in Clientes : \A i \in 1..Len(cliente_contas[c]) :
       cliente_contas[c][i] # a

\* the list without its i-th entry
SemEntrada(lista, i) ==
  SubSeq(lista, 1, i - 1) \o SubSeq(lista, i + 1, Len(lista))

\* what C13 says of a remover_conta step
C13_Remocao ==
  LET c == last'.cli
      lista == cliente_contas[c]
      achadas == {i \in 1..Len(lista) : numero[lista[i]] = last'.b}
  IN
  /\ banco_contas' = banco_contas
  /\ \A d \in Clientes \ {c} : cliente_contas'[d] = cliente_contas[d]
  /\ IF achadas # {}
     THEN /\ last'.res = "True"
          /\ \E i \in achadas :
               /\ \A j \in achadas : i <= j
               /\ cliente_contas'[c] = SemEntrada(lista, i)
     ELSE /\ last'.res = "False"
          /\ cliente_contas'[c] = lista

\* what C13 says of a deposito, saque or transferencia step on an account
\* that has been dropped: it ends as it would for any registered account
C13_AindaOpera ==
  LET a == last'.a IN
  /\ last'.op = "deposito"
       => /\ last'.res = "ok"
          /\ saldo'[a] = saldo[a] + last'.v
  /\ last'.op = "saque"
       => /\ last'.res \in {"ok", OperationError}
          /\ (/\ last'.v <= saldo[a]
              /\ classe[a] = "Poupanca"
                   => ContadorAposReset(a) < limite_saques_diarios[a])
             => /\ last'.res = "ok"
                /\ saldo'[a] = saldo[a] - last'.v
  /\ last'.op = "transferencia"
       => /\ last'.res \in {"ok", OperationError}
          /\ last'.v <= saldo[a] => last'.res = "ok"

\* C13: remover_conta(number) takes exactly one entry, the first whose number
\* matches, out of the client's list and returns true, or returns false and
\* changes nothing when none matches; Banco.contas is unchanged either way,
\* and deposito, saque and transferencia on the dropped account still succeed.
C13_RemoverConta ==
  [][/\ last'.op = "remover_conta" => C13_Remocao
     /\ (/\ last'.op \in {"deposito", "saque", "transferencia"}
         /\ Removida(last'.a))
        => C13_AindaOpera]_vars

\* of two accounts with the same number the client has dropped the first
\* only, and a deposito, saque or transferencia on it has then succeeded
C13_Witness ==
  /\ last.op \in {"deposito", "saque", "transferencia"}
  /\ last.res = "ok"
  /\ last.a = "a1" /\ Removida("a1")
  /\ numero["a2"] = numero["a1"]
  /\ cliente_contas["c1"] = <<"a2">>

\* C14: limite_saque is true of a Corrente in every state, so a saque on a
\* registered Corrente whose funds, overdraft included, cover the amount
\* succeeds even when the daily counter is at or above limite_saques_diarios,
\* and raises the counter once more.
C14_CorrenteSemLimite ==
  [][/\ \A a \in Contas : classe[a] = "Corrente" => limite_saque(a)
     /\ (/\ SaqueRegistrado(last', "Corrente")
         /\ saques_diarios[last'.a] >= limite_saques_diarios[last'.a]
         /\ last'.v <= saldo[last'.a] + limite_cheque_especial[last'.a])
        => /\ last'.res = "ok"
           /\ saques_diarios'[last'.a] = ContadorAposReset(last'.a) + 1]_vars

\* a Corrente has withdrawn on one date more often than the daily limit
\* allows: its counter is above the limit
C14_Witness ==
  /\ last.op = "saque" /\ last.res = "ok"
  /\ classe[last.a] = "Corrente"
  /\ ultima_atualizacao[last.a] = hoje
  /\ saques_diarios[last.a] > limite_saques_diarios[last.a]
  /\ saques_na_data[last.a] > limite_saques_diarios[last.a]

\* C15: for every Corrente, balance plus overdraft limit is the initial
\* balance plus the initial limit plus the sum of the amounts credited minus
\* the sum of the amounts of the debits that succeeded, whether or not they
\* drew on the overdraft; a refused debit leaves the sum as it is.
C15_SaldoMaisLimite ==
  \A a \in Contas :
    classe[a] = "Corrente"
      => saldo[a] + limite_cheque_especial[a] =
           saldo_inicial[a] + LimiteChequeEspecial
             + creditado[a] - debitado[a]

\* a Corrente that was credited and then drew on its overdraft has been
\* refused a further withdrawal
C15_Witness ==
  /\ last.op = "saque" /\ last.res = OperationError
  /\ ContaIn(last.a, banco_contas)
  /\ classe[last.a] = "Corrente"
  /\ limite_cheque_especial[last.a] < LimiteChequeEspecial
  /\ creditado[last.a] > 0
  /\ debitado[last.a] > 0

\* C16: every account, built with a balance of 0 or more and operated on by
\* deposito, saque and transferencia with amounts of 0 or more, has a balance
\* of 0 or more in every state; the overdraft limit of every Corrente lies
\* between 0 and its initial value in every state and no step raises it.
C16_SaldoELimiteNaoNegativos ==
  /\ [](\A a \in Contas :
          /\ saldo[a] >= 0
          /\ classe[a] = "Corrente"
               => /\ 0 <= limite_cheque_especial[a]
                  /\ limite_cheque_especial[a] <= LimiteChequeEspecial)
  /\ [][\A a \in Contas :
          limite_cheque_especial'[a] <= limite_cheque_especial[a]]_vars

\* a Corrente has used up its whole overdraft: balance 0 and limit 0, after a
\* withdrawal of more than was left has been refused
C16_Witness ==
  /\ last.op \in {"saque", "transferencia"} /\ last.res = OperationError
  /\ ~NaoRegistrada(last)
  /\ classe[last.a] = "Corrente"
  /\ saldo_inicial[last.a] >= 0
  /\ saldo[last.a] = 0
  /\ limite_cheque_especial[last.a] = 0

\* C17: in every state the daily counter of every Poupanca lies between 0 and
\* its daily limit, and the number of saque calls that succeeded on it since
\* the date last changed is at most the daily limit.
C17_PoupancaDentroDoLimite ==
  \A a \in Contas :
    classe[a] = "Poupanca"
      => /\ 0 <= saques_diarios[a]
         /\ saques_diarios[a] <= limite_saques_diarios[a]
         /\ saques_na_data[a] <= limite_saques_diarios[a]

\* a Poupanca that has made as many withdrawals today as the limit allows has
\* been refused one more, its balance covering the amount
C17_Witness ==
  /\ last.op = "saque" /\ last.res = OperationError
  /\ ContaIn(last.a, banco_contas)
  /\ classe[last.a] = "Poupanca"
  /\ last.v <= saldo[last.a]
  /\ saques_na_data[last.a] = limite_saques_diarios[last.a]
  /\ saques_diarios[last.a] = limite_saques_diarios[last.a]

\* C18: transferencia neither reads nor changes the daily counter or the
\* last-update date of any account: a covered transfer out of a registered
\* Poupanca whose counter has reached the daily limit today succeeds, and the
\* counters and dates are after every transferencia what they were before.
C18_TransferenciaSemLimite ==
  [][/\ last'.op = "transferencia"
          => UNCHANGED <<saques_diarios, ultima_atualizacao>>
     /\ (/\ TransferenciaCoberta(last')
         /\ classe[last'.a] = "Poupanca"
         /\ saques_diarios[last'.a] >= limite_saques_diarios[last'.a]
         /\ ultima_atualizacao[last'.a] = hoje)
        => /\ last'.res = "ok"
           /\ saques_diarios'[last'.a] = saques_diarios[last'.a]]_vars

\* a Poupanca that has made as many withdrawals today as the limit allows has
\* transferred money out
C18_Witness ==
  /\ last.op = "transferencia" /\ last.res = "ok"
  /\ classe[last.a] = "Poupanca"
  /\ ultima_atualizacao[last.a] = hoje
  /\ saques_na_data[last.a] = limite_saques_diarios[last.a]
  /\ saques_diarios[last.a] = limite_saques_diarios[last.a]
  /\ operacoes[last.a][Len(operacoes[last.a])].tipo
       \in TipoTransferenciaDebito \cup TipoTransferenciaCredito

\* the history novo is the history antigo, record for record, followed by n
\* more
GanhaN(antigo, novo, n) ==
  /\ Len(novo) = Len(antigo) + n
  /\ SubSeq(novo, 1, Len(antigo)) = antigo

\* the step is a successful call that affects the account
Afetada(a) ==
  /\ last'.res = "ok"
  /\ \/ last'.op \in {"deposito", "saque"} /\ last'.a = a
     \/ last'.op = "transferencia" /\ a \in {last'.a, last'.b}

\* the number of parts the account has in the step: one as the account of a
\* successful deposito or saque, one as the source and one as the destination
\* of a successful transferencia
Papeis(a) ==
  IF last'.res # "ok" THEN 0
  ELSE IF last'.op \in {"deposito", "saque"}
  THEN (IF last'.a = a THEN 1 ELSE 0)
  ELSE IF last'.op = "transferencia"
  THEN (IF last'.a = a THEN 1 ELSE 0) + (IF last'.b = a THEN 1 ELSE 0)
  ELSE 0

\* the length of every history is the number of successful deposits,
\* withdrawals, outgoing transfers and incoming transfers on the account
HistoricoContaSucessos ==
  \A a \in Contas : Len(operacoes[a]) = sucessos[a]

\* C19 as stated: no call removes or alters a record of a history; each
\* successful call appends exactly one record to each account it affects and
\* a failed call appends none; the length of a history is the number of
\* successful deposits, withdrawals, outgoing and incoming transfers on it.
C19_UmRegistroPorConta ==
  /\ []HistoricoContaSucessos
  /\ [][\A a \in Contas :
          GanhaN(operacoes[a], operacoes'[a],
                 IF Afetada(a) THEN 1 ELSE 0)]_vars

\* C19 as amended: the same, a successful call appending one record for each
\* part the account has in it, so that a transfer from an account to itself
\* appends two records, the debit and the credit, to that one history.
C19_UmRegistroPorPapel ==
  /\ []HistoricoContaSucessos
  /\ [][\A a \in Contas :
          GanhaN(operacoes[a], operacoes'[a], Papeis(a))]_vars

\* an account that had received a deposit has transferred to itself: three
\* records, two of them from the one transfer
C19_Witness ==
  /\ last.op = "transferencia" /\ last.res = "ok"
  /\ last.a = last.b
  /\ Len(operacoes[last.a]) = 3
  /\ sucessos[last.a] = 3
  /\ operacoes[last.a][1].tipo \in TipoDeposito

\* what the account can pay out: its balance and, for a Corrente, what is
\* left of the overdraft
Fundos(a) ==
  saldo[a] + (IF classe[a] = "Corrente" THEN limite_cheque_especial[a] ELSE 0)

\* C20: a saque on a registered account made when the date differs from the
\* account's last-update date sets the counter to 0 and the last-update date
\* to today before it debits, so the counter is 0 and the date today's even
\* when the withdrawal then fails for want of funds (and the counter is 1
\* when it succeeds); no step other than such a saque changes a counter or a
\* last-update date.
C20_ResetNoSaque ==
  [][/\ (SaqueEmRegistrada(last') /\ hoje # ultima_atualizacao[last'.a])
        => /\ ultima_atualizacao'[last'.a] = hoje
           /\ saques_diarios'[last'.a] = (IF last'.res = "ok" THEN 1 ELSE 0)
           /\ last'.v > Fundos(last'.a)
                => /\ last'.res = OperationError
                   /\ saques_diarios'[last'.a] = 0
     /\ ~SaqueEmRegistrada(last')
        => UNCHANGED <<saques_diarios, ultima_atualizacao>>]_vars

\* an account that withdrew on an earlier date has been refused, today, a
\* withdrawal its funds do not cover: its counter is 0 and its last-update
\* date is today
C20_Witness ==
  /\ last.op = "saque" /\ last.res = OperationError
  /\ ContaIn(last.a, banco_contas)
  /\ last.v > Fundos(last.a)
  /\ hoje > 0 /\ ultima_atualizacao[last.a] = hoje
  /\ Len(Saques(operacoes[last.a])) >= 1
  /\ saques_diarios[last.a] = 0

====
